---- MODULE Spec2Model ----
(***************************************************************************)
(* Model of the Meowith node connector: the error normalisation helper,    *)
(* the API accessor (one method per REST endpoint) and the connector       *)
(* facade that binds an app id and a bucket id.                            *)
(*                                                                         *)
(* JavaScript values that may be undefined are tagged records, so that     *)
(* undefined can be compared with any of them.  Strings are TLA+ strings   *)
(* and are built and taken apart character by character as the code does.  *)
(***************************************************************************)
EXTENDS Integers, Sequences, FiniteSets, TLC

VARIABLES config, defaults, calls, sessions

vars == <<config, defaults, calls, sessions>>

(***************************************************************************)
(* Bounds of the model.                                                    *)
(***************************************************************************)
\* range offsets are drawn from 0..MaxOffset
MaxOffset == 1
\* a listing response carries at most MaxEntities entities
MaxEntities == 2

(***************************************************************************)
(* JavaScript values.                                                      *)
(***************************************************************************)
Undefined == [type |-> "undefined"]
NaN == [type |-> "NaN"]
Str(s) == [type |-> "string", value |-> s]
Num(n) == [type |-> "number", value |-> n]
Bool(b) == [type |-> "boolean", value |-> b]
Obj(f) == [type |-> "object", fields |-> f]

\* JavaScript truthiness of a tagged value
Truthy(v) ==
    CASE v.type = "undefined" -> FALSE
      [] v.type = "NaN" -> FALSE
      [] v.type = "string" -> v.value # ""
      [] v.type = "number" -> v.value # 0
      [] v.type = "boolean" -> v.value
      [] OTHER -> TRUE

\* property read o.k on a tagged value that is not undefined
Get(o, k) ==
    IF o.type = "object" /\ k \in DOMAIN o.fields THEN o.fields[k] ELSE Undefined

(***************************************************************************)
(* error.ts                                                                *)
(***************************************************************************)
LocalInternalError == "LocalInternalError"

ServerErrors ==
    {"InternalError", "BadRequest", "NotFound", "EntityExists", "NoSuchSession",
     "BadAuth", "InsufficientStorage", "NotEmpty", "RangeUnsatisfiable"}

NodeClientError == ServerErrors \cup {LocalInternalError}

ConnectorError(apiError, jsError) ==
    [type |-> "object",
     name |-> "ConnectorError",
     message |-> "Connector Error: " \o apiError \o " | " \o jsError.message,
     apiError |-> apiError,
     jsError |-> jsError]

\* axios.isAxiosError(e)
isAxiosError(e) == e.isAxiosError

\* e.response?.data
ResponseData(e) == IF e.response = Undefined THEN Undefined ELSE e.response.data

\* handleError without the lookup of the body's code
handleError_ignoresCode(e) ==
    <<Undefined, ConnectorError(LocalInternalError, e)>>

\* handleError falling back to the server's InternalError kind
handleError_internalFallback(e) ==
    IF isAxiosError(e) /\ Truthy(ResponseData(e))
    THEN LET code == Get(ResponseData(e), "code")
             ncr == IF Truthy(code) THEN code.value ELSE "InternalError"
         IN <<Undefined, ConnectorError(ncr, e)>>
    ELSE <<Undefined, ConnectorError("InternalError", e)>>

handleError(e) ==
    IF isAxiosError(e) /\ Truthy(ResponseData(e))
    THEN LET code == Get(ResponseData(e), "code")
             ncr == IF Truthy(code) THEN code.value ELSE LocalInternalError
         IN <<Undefined, ConnectorError(ncr, e)>>
    ELSE <<Undefined, ConnectorError(LocalInternalError, e)>>

\* the failures a call can end in that are not transport errors
JsError(name, message) ==
    [name |-> name, message |-> message, isAxiosError |-> FALSE, response |-> Undefined]

InvalidRangeError == JsError("Error", "Invalid range object")

\* reading a property of undefined or null
TypeError == JsError("TypeError", "Cannot read properties of undefined")

\* the two ways a piece of code ends: by throwing or by returning
Throw(e) == [threw |-> TRUE, error |-> e]

Return(v) == [threw |-> FALSE, value |-> v]

(***************************************************************************)
(* api-access.ts: range serialisation.  A range is a function whose domain *)
(* is the set of keys the object has.                                      *)
(***************************************************************************)
\* constructRangeHeader testing the fields for truthiness instead of presence
constructRangeHeader_truthy(range) ==
    LET has(k) == k \in DOMAIN range /\ range[k] # 0
    IN IF has("start") /\ has("end")
       THEN Return("bytes=" \o ToString(range.start) \o "-" \o ToString(range.end))
       ELSE IF has("start")
       THEN Return("bytes=" \o ToString(range.start) \o "-")
       ELSE IF has("end")
       THEN Return("bytes=-" \o ToString(range.end))
       ELSE Throw(InvalidRangeError)

constructRangeHeader(range) ==
    IF "start" \in DOMAIN range /\ "end" \in DOMAIN range
    THEN Return("bytes=" \o ToString(range.start) \o "-" \o ToString(range.end))
    ELSE IF "start" \in DOMAIN range
    THEN Return("bytes=" \o ToString(range.start) \o "-")
    ELSE IF "end" \in DOMAIN range
    THEN Return("bytes=-" \o ToString(range.end))
    ELSE Throw(InvalidRangeError)

\* constructPaginationQuery without the trailing hyphen of the start-only form
constructPaginationQuery_noHyphen(range) ==
    IF range = Undefined
    THEN ""
    ELSE IF "start" \in DOMAIN range /\ "end" \in DOMAIN range
    THEN "?start=" \o ToString(range.start) \o "&end=" \o ToString(range.end)
    ELSE IF "start" \in DOMAIN range
    THEN "?start=" \o ToString(range.start)
    ELSE IF "end" \in DOMAIN range
    THEN "?end=" \o ToString(range.end)
    ELSE ""

constructPaginationQuery(range) ==
    IF range = Undefined
    THEN ""
    ELSE IF "start" \in DOMAIN range /\ "end" \in DOMAIN range
    THEN "?start=" \o ToString(range.start) \o "&end=" \o ToString(range.end)
    ELSE IF "start" \in DOMAIN range
    THEN "?start=" \o ToString(range.start) \o "-"
    ELSE IF "end" \in DOMAIN range
    THEN "?end=" \o ToString(range.end)
    ELSE ""

(***************************************************************************)
(* Strings of digits.                                                      *)
(***************************************************************************)
Digits == {"0", "1", "2", "3", "4", "5", "6", "7", "8", "9"}

DigitValue(ch) ==
    CASE ch = "0" -> 0 [] ch = "1" -> 1 [] ch = "2" -> 2 [] ch = "3" -> 3
      [] ch = "4" -> 4 [] ch = "5" -> 5 [] ch = "6" -> 6 [] ch = "7" -> 7
      [] ch = "8" -> 8 [] ch = "9" -> 9

CharAt(s, i) == SubSeq(s, i, i)

AllDigits(s) == \A i \in 1..Len(s) : CharAt(s, i) \in Digits

RECURSIVE DecimalValue(_)
DecimalValue(s) ==
    IF Len(s) = 0 THEN 0
    ELSE 10 * DecimalValue(SubSeq(s, 1, Len(s) - 1)) + DigitValue(CharAt(s, Len(s)))

Pad2(n) == IF n < 10 THEN "0" \o ToString(n) ELSE ToString(n)

Pad3(n) == IF n < 10 THEN "00" \o ToString(n) ELSE IF n < 100 THEN "0" \o ToString(n) ELSE ToString(n)

Pad4(n) == IF n < 1000 THEN "0" \o Pad3(n) ELSE ToString(n)

(***************************************************************************)
(* Timestamps.  An instant is <<seconds since the epoch, milliseconds>>.   *)
(* The storage node writes an instant as an ISO-8601 UTC string; the       *)
(* client reads it with new Date(string).                                  *)
(***************************************************************************)
SecondsPerDay == 86400

\* the node's encoder: proleptic Gregorian date of a day number
CivilFromDays(z) ==
    LET zz == z + 719468
        era == zz \div 146097
        doe == zz - era * 146097
        yoe == (doe - doe \div 1460 + doe \div 36524 - doe \div 146096) \div 365
        doy == doe - (365 * yoe + yoe \div 4 - yoe \div 100)
        mp == (5 * doy + 2) \div 153
        d == doy - (153 * mp + 2) \div 5 + 1
        m == IF mp < 10 THEN mp + 3 ELSE mp - 9
        y == yoe + era * 400 + (IF m <= 2 THEN 1 ELSE 0)
    IN [year |-> y, month |-> m, day |-> d]

\* the wire form of an instant
WireTimestamp(t) ==
    LET date == CivilFromDays(t[1] \div SecondsPerDay)
        sod == t[1] % SecondsPerDay
    IN Pad4(date.year) \o "-" \o Pad2(date.month) \o "-" \o Pad2(date.day) \o "T"
       \o Pad2(sod \div 3600) \o ":" \o Pad2((sod % 3600) \div 60) \o ":" \o Pad2(sod % 60)
       \o (IF t[2] = 0 THEN "" ELSE "." \o Pad3(t[2])) \o "Z"

\* ECMAScript date arithmetic (DayFromYear, MakeDay, MakeTime)
InLeapYear(y) == (y % 4 = 0 /\ y % 100 # 0) \/ y % 400 = 0

DayFromYear(y) ==
    365 * (y - 1970) + ((y - 1969) \div 4) - ((y - 1901) \div 100) + ((y - 1601) \div 400)

DaysInMonth(y, m) ==
    CASE m = 2 -> IF InLeapYear(y) THEN 29 ELSE 28
      [] m \in {4, 6, 9, 11} -> 30
      [] OTHER -> 31

RECURSIVE DaysBeforeMonth(_, _)
DaysBeforeMonth(y, m) ==
    IF m = 1 THEN 0 ELSE DaysBeforeMonth(y, m - 1) + DaysInMonth(y, m - 1)

MakeDay(y, m, d) == DayFromYear(y) + DaysBeforeMonth(y, m) + d - 1

InvalidDate == [type |-> "Date", valid |-> FALSE, time |-> <<0, 0>>]

\* Date.parse of the ISO date-time format with the Z designator
DateParse(s) ==
    LET n == Len(s)
        shape == /\ n \in {20, 24}
                 /\ CharAt(s, 5) = "-" /\ CharAt(s, 8) = "-" /\ CharAt(s, 11) = "T"
                 /\ CharAt(s, 14) = ":" /\ CharAt(s, 17) = ":" /\ CharAt(s, n) = "Z"
                 /\ AllDigits(SubSeq(s, 1, 4)) /\ AllDigits(SubSeq(s, 6, 7))
                 /\ AllDigits(SubSeq(s, 9, 10)) /\ AllDigits(SubSeq(s, 12, 13))
                 /\ AllDigits(SubSeq(s, 15, 16)) /\ AllDigits(SubSeq(s, 18, 19))
                 /\ (n = 24 => CharAt(s, 20) = "." /\ AllDigits(SubSeq(s, 21, 23)))
        y == DecimalValue(SubSeq(s, 1, 4))
        m == DecimalValue(SubSeq(s, 6, 7))
        d == DecimalValue(SubSeq(s, 9, 10))
        hh == DecimalValue(SubSeq(s, 12, 13))
        mm == DecimalValue(SubSeq(s, 15, 16))
        ss == DecimalValue(SubSeq(s, 18, 19))
        ms == IF n = 24 THEN DecimalValue(SubSeq(s, 21, 23)) ELSE 0
    IN IF shape /\ m \in 1..12 /\ d \in 1..DaysInMonth(y, m)
          /\ hh \in 0..23 /\ mm \in 0..59 /\ ss \in 0..59
       THEN [type |-> "Date", valid |-> TRUE,
             time |-> <<MakeDay(y, m, d) * SecondsPerDay + hh * 3600 + mm * 60 + ss, ms>>]
       ELSE InvalidDate

\* new Date(v) for a wire value v
NewDate(v) == IF v.type = "string" THEN DateParse(v.value) ELSE InvalidDate

(***************************************************************************)
(* Inputs of the callers.                                                  *)
(***************************************************************************)
CallIds == {1}

AppIds == {"app1", "app2"}

BucketIds == {"bkt1"}

Paths == {"a.txt", "docs"}

BucketIdValues == {[appId |-> a, bucketId |-> b] : a \in AppIds, b \in BucketIds}

Resources == {[appId |-> a, bucketId |-> b, path |-> p] : a \in AppIds, b \in BucketIds, p \in Paths}

\* the objects a caller can pass as a Range, the empty object included
RangeObjects == UNION {[D -> 0..MaxOffset] : D \in SUBSET {"start", "end"}}

Ranges == {Undefined} \cup RangeObjects

NewNames == {"new"}

Sizes == {42}

Payloads == {Str("chunk")}

\* the session codes the node hands out
SessionCodes == {"s1", "s2"}

Sessions == {[code |-> k, validity |-> 60, uploaded |-> 0] : k \in SessionCodes}

Configs ==
    {[apiToken |-> "tok", appId |-> "app1", bucketId |-> "bkt1",
      nodeAddress |-> "node:8080", useSsl |-> ssl] : ssl \in BOOLEAN}

(***************************************************************************)
(* The storage node: what an exchange can end in.                          *)
(***************************************************************************)
Arr(seq) == [type |-> "array", items |-> seq]

SeqsUpTo(S, n) == UNION {[1..k -> S] : k \in 0..n}

\* entities as the node holds them, timestamps as instants
NodeEntities ==
    {[name |-> "a.txt", size |-> 42, is_dir |-> FALSE,
      created |-> <<951868799, 0>>, last_modified |-> <<1709210096, 789>>],
     [name |-> "docs", dir |-> "d0", dir_id |-> "d1", size |-> 0, is_dir |-> TRUE,
      created |-> <<0, 0>>, last_modified |-> <<2147483647, 999>>]}

\* RawEntity: the wire form of an entity
RawEntity(e) ==
    Obj([k \in DOMAIN e |->
            CASE k \in {"created", "last_modified"} -> Str(WireTimestamp(e[k]))
              [] k = "size" -> Num(e[k])
              [] k = "is_dir" -> Bool(e[k])
              [] OTHER -> Str(e[k])])

RawEntityList(seq) == Obj([entities |-> Arr([i \in DOMAIN seq |-> RawEntity(seq[i])])])

NodeBucket ==
    [app_id |-> "app1", id |-> "bkt1", name |-> "bucket", encrypted |-> FALSE,
     atomic_upload |-> TRUE, quota |-> 100, file_count |-> 1, space_taken |-> 42,
     created |-> <<951868800, 7>>, last_modified |-> <<1704067199, 50>>]

RawBucket(b) ==
    Obj([k \in DOMAIN b |->
            CASE k \in {"created", "last_modified"} -> Str(WireTimestamp(b[k]))
              [] k \in {"quota", "file_count", "space_taken"} -> Num(b[k])
              [] k \in {"encrypted", "atomic_upload"} -> Bool(b[k])
              [] OTHER -> Str(b[k])])

Disposition == "attachment; filename=\"a.txt\""

DownloadHeaders ==
    {("Content-Length" :> "42") @@ ("Content-Disposition" :> Disposition) @@ ("Content-Type" :> "text/plain"),
     ("content-length" :> "42") @@ ("content-disposition" :> Disposition) @@ ("content-type" :> "text/plain"),
     ("Content-Length" :> "42") @@ ("Content-Type" :> "text/plain"),
     ("Content-Disposition" :> "inline") @@ ("Content-Type" :> "text/plain")}

NoHeaders == [k \in {} |-> ""]

Response(headers, data, served) == [headers |-> headers, data |-> data, served |-> served]

\* bodies of a 2xx response that lack what the operation reads
MalformedBodies == {Undefined, Str(""), Obj([message |-> Str("ok")])}

\* the 2xx responses the node (or a proxy in front of it) can give to an operation;
\* served is the node-side value the body encodes
Responses(op) ==
    CASE op = "downloadFile" ->
            {Response(h, Str("stream"), <<>>) : h \in DownloadHeaders}
      [] op = "startUploadSession" ->
            {Response(NoHeaders, Obj([code |-> Str(k), validity |-> Num(60), uploaded |-> Num(0)]), <<k>>)
                : k \in SessionCodes}
            \cup {Response(NoHeaders, Str(""), <<>>)}
      [] op = "resumeUploadSession" ->
            {Response(NoHeaders, Obj([uploaded |-> Num(n)]), <<n>>) : n \in {0, 7}}
      [] op \in {"listBucketFiles", "listBucketDirectories", "listDirectory"} ->
            {Response(NoHeaders, RawEntityList(seq), seq) : seq \in SeqsUpTo(NodeEntities, MaxEntities)}
            \cup {Response(NoHeaders, d, <<>>) : d \in MalformedBodies}
      [] op = "statResource" ->
            {Response(NoHeaders, RawEntity(e), <<e>>) : e \in NodeEntities}
            \cup {Response(NoHeaders, d, <<>>) : d \in MalformedBodies}
      [] op = "fetchBucketInfo" ->
            {Response(NoHeaders, RawBucket(NodeBucket), <<NodeBucket>>)}
            \cup {Response(NoHeaders, d, <<>>) : d \in MalformedBodies}
      [] OTHER -> {Response(NoHeaders, Str(""), <<>>)}

Operations ==
    {"downloadFile", "uploadFile", "startUploadSession", "putFile", "resumeUploadSession",
     "renameFile", "renameDirectory", "deleteFile", "deleteDirectory", "createDirectory",
     "listBucketFiles", "listBucketDirectories", "listDirectory", "statResource",
     "fetchBucketInfo"}

\* the outcomes drawn for a single caller: every response of every operation,
\* with one upload session on the node
AllResponses ==
    UNION {IF op = "startUploadSession"
           THEN {r \in Responses(op) : r.served \in {<<>>, <<"s1">>}}
           ELSE Responses(op) : op \in Operations}

\* the codes an error body can carry: the kinds of the enumeration, a code
\* outside it, and the empty string
ErrorCodes == NodeClientError \cup {"Teapot", ""}

ErrorBodies ==
    {Str(""), Str("Bad Gateway"), Obj([message |-> Str("no code")])}
    \cup {Obj([code |-> Str(k)]) : k \in ErrorCodes}

AxiosError(response) ==
    [name |-> "AxiosError", message |-> "Request failed", isAxiosError |-> TRUE,
     response |-> response]

\* the rejections of an exchange: no response at all, or a non-2xx response
AxiosErrors == {AxiosError(Undefined)} \cup {AxiosError([data |-> d]) : d \in ErrorBodies}

(***************************************************************************)
(* The transport: axiosInstance with its defaults.                         *)
(***************************************************************************)
\* the arguments of one axios call
Request(method, url, headers, data, responseType) ==
    [method |-> method, url |-> url, headers |-> headers, data |-> data,
     responseType |-> responseType]

\* JSON.stringify of a request body: members whose value is undefined are left out
Serialize(data) ==
    IF data.type = "object"
    THEN Obj([k \in {j \in DOMAIN data.fields : data.fields[j] # Undefined} |-> data.fields[k]])
    ELSE data

\* Dispatch without the instance defaults: the request leaves with the base
\* URL and headers of the call alone
Dispatch_noDefaults(req, dflt) ==
    [method |-> req.method,
     baseURL |-> "",
     url |-> req.url,
     headers |-> req.headers,
     data |-> Serialize(req.data),
     responseType |-> req.responseType]

\* the request as it leaves: the instance defaults merged with the call's own
Dispatch(req, dflt) ==
    [method |-> req.method,
     baseURL |-> dflt.baseURL,
     url |-> req.url,
     headers |-> [k \in {"Authorization"} \cup DOMAIN req.headers |->
                    IF k \in DOMAIN req.headers THEN req.headers[k] ELSE dflt.Authorization],
     data |-> Serialize(req.data),
     responseType |-> req.responseType]

\* response.headers[name]
Header(response, name) ==
    IF name \in DOMAIN response.headers THEN Str(response.headers[name]) ELSE Undefined

(***************************************************************************)
(* api-access.ts: the part of each operation that runs before the await.   *)
(***************************************************************************)
ResourceUrl(prefix, resource) ==
    prefix \o resource.appId \o "/" \o resource.bucketId \o "/" \o resource.path

BucketUrl(prefix, bucketId) == prefix \o bucketId.appId \o "/" \o bucketId.bucketId

\* downloadFile sending its request without looking at the range
downloadFile_request_noRange(resource, range) ==
    Return(Request("GET", ResourceUrl("/api/file/download/", resource),
                   NoHeaders, Undefined, "stream"))

downloadFile_request(resource, range) ==
    LET header == IF range # Undefined THEN constructRangeHeader(range) ELSE Return("")
    IN IF header.threw
       THEN header
       ELSE Return(Request("GET", ResourceUrl("/api/file/download/", resource),
                           IF range # Undefined THEN [Range |-> header.value] ELSE NoHeaders,
                           Undefined, "stream"))

uploadFile_request(resource, data, size) ==
    Return(Request("POST", ResourceUrl("/api/file/upload/oneshot/", resource),
                   ("Content-Length" :> ToString(size)), data, "json"))

startUploadSession_request(resource, size) ==
    Return(Request("POST", ResourceUrl("/api/file/upload/oneshot/", resource),
                   NoHeaders, Obj([size |-> Num(size)]), "json"))

\* putFile that addresses the chunk by a code the client keeps, not the one
\* of the session it was given
putFile_request_fixedCode(bucketId, session, data) ==
    Return(Request("PUT", BucketUrl("/api/file/upload/put/", bucketId) \o "/" \o "s1",
                   NoHeaders, data, "json"))

putFile_request(bucketId, session, data) ==
    Return(Request("PUT", BucketUrl("/api/file/upload/put/", bucketId) \o "/" \o session.code,
                   NoHeaders, data, "json"))

resumeUploadSession_request(bucketId, session) ==
    Return(Request("POST", BucketUrl("/api/file/upload/resume/", bucketId),
                   NoHeaders, Obj([session_id |-> Str(session.code)]), "json"))

renameFile_request(resource, to) ==
    Return(Request("POST", ResourceUrl("/api/file/rename/", resource),
                   NoHeaders, Obj([to |-> Str(to)]), "json"))

renameDirectory_request(resource, to) ==
    Return(Request("POST", ResourceUrl("/api/directory/rename/", resource),
                   NoHeaders, Obj([to |-> Str(to)]), "json"))

deleteFile_request(resource) ==
    Return(Request("DELETE", ResourceUrl("/api/file/delete/", resource),
                   NoHeaders, Undefined, "json"))

\* recursive is Bool(r), or Undefined when the caller passed no second argument
deleteDirectory_request(resource, recursive) ==
    Return(Request("DELETE", ResourceUrl("/api/directory/delete/", resource),
                   NoHeaders, Obj([recursive |-> recursive]), "json"))

createDirectory_request(resource) ==
    Return(Request("POST", ResourceUrl("/api/directory/create/", resource),
                   NoHeaders, Undefined, "json"))

listBucketFiles_request(bucketId, paginate) ==
    Return(Request("GET", BucketUrl("/api/bucket/list/files/", bucketId)
                          \o constructPaginationQuery(paginate),
                   NoHeaders, Undefined, "json"))

listBucketDirectories_request(bucketId, paginate) ==
    Return(Request("GET", BucketUrl("/api/bucket/list/directories/", bucketId)
                          \o constructPaginationQuery(paginate),
                   NoHeaders, Undefined, "json"))

listDirectory_request(resource, paginate) ==
    Return(Request("GET", ResourceUrl("/api/directory/list/", resource)
                          \o constructPaginationQuery(paginate),
                   NoHeaders, Undefined, "json"))

statResource_request(resource) ==
    Return(Request("GET", ResourceUrl("/api/bucket/stat/", resource),
                   NoHeaders, Undefined, "json"))

fetchBucketInfo_request(bucketId) ==
    Return(Request("GET", BucketUrl("/api/bucket/info/", bucketId),
                   NoHeaders, Undefined, "json"))

(***************************************************************************)
(* api-access.ts: the part of each operation that runs after the await     *)
(* when the exchange succeeded.                                            *)
(***************************************************************************)
\* parseInt(v): the value of the leading decimal digits, NaN without any
parseInt(v) ==
    IF v.type # "string"
    THEN NaN
    ELSE LET s == v.value
             k == CHOOSE n \in 0..Len(s) :
                     /\ AllDigits(SubSeq(s, 1, n))
                     /\ (n < Len(s) => CharAt(s, n + 1) \notin Digits)
         IN IF k = 0 THEN NaN ELSE Num(DecimalValue(SubSeq(s, 1, k)))

FilenamePrefix == "filename=\""

\* s.match(/filename="(.+)"/): leftmost start, longest capture
FilenameMatch(s) ==
    LET n == Len(s)
        pn == Len(FilenamePrefix)
        Closers(i) == {j \in (i + pn + 1)..n :
                          /\ CharAt(s, j) = "\""
                          /\ \A q \in (i + pn)..(j - 1) : CharAt(s, q) # "\n"}
        Starts == {i \in 1..n : /\ i + pn - 1 <= n
                                /\ SubSeq(s, i, i + pn - 1) = FilenamePrefix
                                /\ Closers(i) # {}}
    IN IF Starts = {}
       THEN [matched |-> FALSE, group |-> ""]
       ELSE LET i == CHOOSE a \in Starts : \A b \in Starts : a <= b
                j == CHOOSE a \in Closers(i) : \A b \in Closers(i) : a >= b
            IN [matched |-> TRUE, group |-> SubSeq(s, i + pn, j - 1)]

downloadFile_then(response) ==
    LET disposition == Header(response, "Content-Disposition")
    IN IF disposition = Undefined
       THEN Throw(TypeError)
       ELSE LET m == FilenameMatch(disposition.value)
            IN IF ~m.matched
               THEN Throw(TypeError)
               ELSE Return(Obj([size |-> parseInt(Header(response, "Content-Length")),
                                name |-> Str(m.group),
                                mime |-> Header(response, "Content-Type"),
                                content |-> response.data]))

\* { ...x, last_modified: new Date(x.last_modified), created: new Date(x.created) }
Entity(x) ==
    LET own == IF x.type = "object" THEN DOMAIN x.fields ELSE {}
    IN Obj([k \in own \cup {"last_modified", "created"} |->
               CASE k = "last_modified" -> NewDate(Get(x, "last_modified"))
                 [] k = "created" -> NewDate(Get(x, "created"))
                 [] OTHER -> x.fields[k]])

\* the listing handing the entities back in reverse order
listEntities_then_reversed(response) ==
    IF response.data = Undefined
    THEN Throw(TypeError)
    ELSE LET entities == Get(response.data, "entities")
         IN IF entities.type # "array"
            THEN Throw(TypeError)
            ELSE LET n == Len(entities.items)
                 IN Return(Arr([i \in 1..n |-> Entity(entities.items[n + 1 - i])]))

\* entities.entities.map(x => ...), the body shared by the three listings
listEntities_then(response) ==
    IF response.data = Undefined
    THEN Throw(TypeError)
    ELSE LET entities == Get(response.data, "entities")
         IN IF entities.type # "array"
            THEN Throw(TypeError)
            ELSE Return(Arr([i \in DOMAIN entities.items |-> Entity(entities.items[i])]))

statResource_then(response) ==
    IF response.data = Undefined THEN Throw(TypeError) ELSE Return(Entity(response.data))

fetchBucketInfo_then(response) ==
    IF response.data = Undefined THEN Throw(TypeError) ELSE Return(Entity(response.data))

Then(op, response) ==
    CASE op = "downloadFile" -> downloadFile_then(response)
      [] op \in {"startUploadSession", "resumeUploadSession"} -> Return(response.data)
      [] op \in {"listBucketFiles", "listBucketDirectories", "listDirectory"} ->
            listEntities_then(response)
      [] op = "statResource" -> statResource_then(response)
      [] op = "fetchBucketInfo" -> fetchBucketInfo_then(response)
      [] OTHER -> Return(Undefined)

\* the operation without its catch block
TryCatch_uncaught(body) ==
    IF body.threw THEN body ELSE Return(<<body.value, Undefined>>)

\* try { ...; return [value, undefined] } catch (e) { return handleError(e) }
\* body is how the try block ended; the result is how the operation ends
TryCatch(body) ==
    IF body.threw THEN Return(handleError(body.error)) ELSE Return(<<body.value, Undefined>>)

(***************************************************************************)
(* State.  calls[c] is the operation caller c has invoked last: its        *)
(* arguments, the request it sent, how the exchange was settled and what   *)
(* the operation returned.                                                 *)
(***************************************************************************)
ArgNames == {"resource", "path", "range", "recursive", "to", "size", "session", "data"}

NoArgs == [k \in ArgNames |-> Undefined]

Args(given) == [k \in ArgNames |-> IF k \in DOMAIN given THEN given[k] ELSE Undefined]

Idle ==
    [pc |-> "idle", via |-> "none", op |-> "none", cargs |-> NoArgs, args |-> NoArgs,
     request |-> Undefined, sent |-> 0, inflight |-> 0, settled |-> Undefined,
     result |-> <<Undefined, Undefined>>, raised |-> Undefined]

\* connector.ts, constructor
MeowithApiAccessor_constructor(apiToken, baseUrl) ==
    [baseURL |-> baseUrl, Authorization |-> "Bearer " \o apiToken]

MeowithConnector_constructor(cfg) ==
    MeowithApiAccessor_constructor(cfg.apiToken,
        "http" \o (IF cfg.useSsl THEN "s" ELSE "") \o "://" \o cfg.nodeAddress)

Init ==
    /\ config \in Configs
    /\ defaults = MeowithConnector_constructor(config)
    /\ calls = [c \in CallIds |-> Idle]
    /\ sessions = {}

\* how an operation ends: it returns its result, or it raises to its caller
Completed(call, completion) ==
    IF completion.threw
    THEN [call EXCEPT !.pc = "raised", !.raised = completion.error]
    ELSE [call EXCEPT !.pc = "returned", !.result = completion.value]

\* An operation is entered: the code up to the await runs.  It either sends
\* its request and suspends, or throws inside the try block, and then the
\* catch block decides how the operation ends.  The value is the call after
\* that code has run.
Entered(via, op, cargs, args, attempt) ==
    LET call == [Idle EXCEPT !.via = via, !.op = op, !.cargs = cargs, !.args = args]
    IN IF attempt.threw
       THEN Completed(call, TryCatch(attempt))
       ELSE [call EXCEPT !.pc = "awaiting",
                         !.request = Dispatch(attempt.value, defaults),
                         !.sent = 1,
                         !.inflight = 1]

\* the UploadSessionInfo a caller holds after startUploadSession returned result
Obtained(op, result) ==
    IF /\ op = "startUploadSession"
       /\ result[2] = Undefined
       /\ Get(result[1], "code").type = "string"
    THEN {[code |-> result[1].fields.code.value,
           validity |-> result[1].fields.validity.value,
           uploaded |-> result[1].fields.uploaded.value]}
    ELSE {}

\* the awaited exchange succeeds: the rest of the try block runs, and the
\* caller keeps the session info a startUploadSession returned
AxiosResolve(c, response) ==
    /\ calls[c].pc = "awaiting"
    /\ response \in Responses(calls[c].op)
    /\ calls' = [calls EXCEPT ![c] =
          Completed([calls[c] EXCEPT !.inflight = 0,
                                     !.settled = [status |-> "fulfilled", value |-> response]],
                    TryCatch(Then(calls[c].op, response)))]
    /\ sessions' = sessions \cup Obtained(calls[c].op, calls'[c].result)
    /\ UNCHANGED <<config, defaults>>

\* a failed exchange that is retried: the request is sent again and the
\* operation stays suspended
AxiosReject_retry(c, e) ==
    /\ calls[c].pc = "awaiting"
    /\ calls' = [calls EXCEPT ![c].sent = @ + 1,
                              ![c].settled = [status |-> "rejected", reason |-> e]]
    /\ UNCHANGED <<config, defaults, sessions>>

\* the awaited exchange fails: the catch block runs
AxiosReject(c, e) ==
    /\ calls[c].pc = "awaiting"
    /\ calls' = [calls EXCEPT ![c] =
          Completed([calls[c] EXCEPT !.inflight = 0,
                                     !.settled = [status |-> "rejected", reason |-> e]],
                    TryCatch(Throw(e)))]
    /\ UNCHANGED <<config, defaults, sessions>>

(***************************************************************************)
(* api-access.ts: the operations of the accessor.  via and cargs record    *)
(* who called: a caller of the accessor, or the connector on behalf of a   *)
(* caller that passed cargs.  The value is the call once entered.          *)
(***************************************************************************)
downloadFile(via, cargs, resource, range) ==
    Entered(via, "downloadFile", cargs, Args([resource |-> resource, range |-> range]),
          downloadFile_request(resource, range))

uploadFile(via, cargs, resource, data, size) ==
    Entered(via, "uploadFile", cargs,
          Args([resource |-> resource, data |-> data, size |-> Num(size)]),
          uploadFile_request(resource, data, size))

startUploadSession(via, cargs, resource, size) ==
    Entered(via, "startUploadSession", cargs,
          Args([resource |-> resource, size |-> Num(size)]),
          startUploadSession_request(resource, size))

putFile(via, cargs, bucketId, session, data) ==
    Entered(via, "putFile", cargs,
          Args([resource |-> bucketId, session |-> session, data |-> data]),
          putFile_request(bucketId, session, data))

resumeUploadSession(via, cargs, bucketId, session) ==
    Entered(via, "resumeUploadSession", cargs,
          Args([resource |-> bucketId, session |-> session]),
          resumeUploadSession_request(bucketId, session))

renameFile(via, cargs, resource, to) ==
    Entered(via, "renameFile", cargs, Args([resource |-> resource, to |-> Str(to)]),
          renameFile_request(resource, to))

renameDirectory(via, cargs, resource, to) ==
    Entered(via, "renameDirectory", cargs, Args([resource |-> resource, to |-> Str(to)]),
          renameDirectory_request(resource, to))

deleteFile(via, cargs, resource) ==
    Entered(via, "deleteFile", cargs, Args([resource |-> resource]),
          deleteFile_request(resource))

deleteDirectory(via, cargs, resource, recursive) ==
    Entered(via, "deleteDirectory", cargs,
          Args([resource |-> resource, recursive |-> recursive]),
          deleteDirectory_request(resource, recursive))

createDirectory(via, cargs, resource) ==
    Entered(via, "createDirectory", cargs, Args([resource |-> resource]),
          createDirectory_request(resource))

listBucketFiles(via, cargs, bucketId, paginate) ==
    Entered(via, "listBucketFiles", cargs, Args([resource |-> bucketId, range |-> paginate]),
          listBucketFiles_request(bucketId, paginate))

listBucketDirectories(via, cargs, bucketId, paginate) ==
    Entered(via, "listBucketDirectories", cargs,
          Args([resource |-> bucketId, range |-> paginate]),
          listBucketDirectories_request(bucketId, paginate))

listDirectory(via, cargs, resource, paginate) ==
    Entered(via, "listDirectory", cargs, Args([resource |-> resource, range |-> paginate]),
          listDirectory_request(resource, paginate))

statResource(via, cargs, resource) ==
    Entered(via, "statResource", cargs, Args([resource |-> resource]),
          statResource_request(resource))

fetchBucketInfo(via, cargs, bucketId) ==
    Entered(via, "fetchBucketInfo", cargs, Args([resource |-> bucketId]),
          fetchBucketInfo_request(bucketId))

(***************************************************************************)
(* A caller invokes an operation of the accessor.  The session a caller    *)
(* passes is one it holds.                                                 *)
(***************************************************************************)
MeowithApiAccessor_downloadFile(c, resource, range) ==
    /\ calls[c].pc # "awaiting"
    /\ calls' = [calls EXCEPT ![c] =
          downloadFile("accessor", NoArgs, resource, range)]
    /\ UNCHANGED <<config, defaults, sessions>>

MeowithApiAccessor_uploadFile(c, resource, data, size) ==
    /\ calls[c].pc # "awaiting"
    /\ calls' = [calls EXCEPT ![c] =
          uploadFile("accessor", NoArgs, resource, data, size)]
    /\ UNCHANGED <<config, defaults, sessions>>

MeowithApiAccessor_startUploadSession(c, resource, size) ==
    /\ calls[c].pc # "awaiting"
    /\ calls' = [calls EXCEPT ![c] =
          startUploadSession("accessor", NoArgs, resource, size)]
    /\ UNCHANGED <<config, defaults, sessions>>

MeowithApiAccessor_putFile(c, bucketId, session, data) ==
    /\ calls[c].pc # "awaiting"
    /\ session \in sessions
    /\ calls' = [calls EXCEPT ![c] =
          putFile("accessor", NoArgs, bucketId, session, data)]
    /\ UNCHANGED <<config, defaults, sessions>>

MeowithApiAccessor_resumeUploadSession(c, bucketId, session) ==
    /\ calls[c].pc # "awaiting"
    /\ session \in sessions
    /\ calls' = [calls EXCEPT ![c] =
          resumeUploadSession("accessor", NoArgs, bucketId, session)]
    /\ UNCHANGED <<config, defaults, sessions>>

MeowithApiAccessor_renameFile(c, resource, to) ==
    /\ calls[c].pc # "awaiting"
    /\ calls' = [calls EXCEPT ![c] =
          renameFile("accessor", NoArgs, resource, to)]
    /\ UNCHANGED <<config, defaults, sessions>>

MeowithApiAccessor_renameDirectory(c, resource, to) ==
    /\ calls[c].pc # "awaiting"
    /\ calls' = [calls EXCEPT ![c] =
          renameDirectory("accessor", NoArgs, resource, to)]
    /\ UNCHANGED <<config, defaults, sessions>>

MeowithApiAccessor_deleteFile(c, resource) ==
    /\ calls[c].pc # "awaiting"
    /\ calls' = [calls EXCEPT ![c] =
          deleteFile("accessor", NoArgs, resource)]
    /\ UNCHANGED <<config, defaults, sessions>>

MeowithApiAccessor_deleteDirectory(c, resource, recursive) ==
    /\ calls[c].pc # "awaiting"
    /\ calls' = [calls EXCEPT ![c] =
          deleteDirectory("accessor", NoArgs, resource, Bool(recursive))]
    /\ UNCHANGED <<config, defaults, sessions>>

MeowithApiAccessor_createDirectory(c, resource) ==
    /\ calls[c].pc # "awaiting"
    /\ calls' = [calls EXCEPT ![c] =
          createDirectory("accessor", NoArgs, resource)]
    /\ UNCHANGED <<config, defaults, sessions>>

MeowithApiAccessor_listBucketFiles(c, bucketId, paginate) ==
    /\ calls[c].pc # "awaiting"
    /\ calls' = [calls EXCEPT ![c] =
          listBucketFiles("accessor", NoArgs, bucketId, paginate)]
    /\ UNCHANGED <<config, defaults, sessions>>

MeowithApiAccessor_listBucketDirectories(c, bucketId, paginate) ==
    /\ calls[c].pc # "awaiting"
    /\ calls' = [calls EXCEPT ![c] =
          listBucketDirectories("accessor", NoArgs, bucketId, paginate)]
    /\ UNCHANGED <<config, defaults, sessions>>

MeowithApiAccessor_listDirectory(c, resource, paginate) ==
    /\ calls[c].pc # "awaiting"
    /\ calls' = [calls EXCEPT ![c] =
          listDirectory("accessor", NoArgs, resource, paginate)]
    /\ UNCHANGED <<config, defaults, sessions>>

MeowithApiAccessor_statResource(c, resource) ==
    /\ calls[c].pc # "awaiting"
    /\ calls' = [calls EXCEPT ![c] =
          statResource("accessor", NoArgs, resource)]
    /\ UNCHANGED <<config, defaults, sessions>>

MeowithApiAccessor_fetchBucketInfo(c, bucketId) ==
    /\ calls[c].pc # "awaiting"
    /\ calls' = [calls EXCEPT ![c] =
          fetchBucketInfo("accessor", NoArgs, bucketId)]
    /\ UNCHANGED <<config, defaults, sessions>>

(***************************************************************************)
(* connector.ts: every method pairs the bound identifiers with the path    *)
(* and calls the accessor.                                                 *)
(***************************************************************************)
getResource(path) == [appId |-> config.appId, bucketId |-> config.bucketId, path |-> path]

MeowithConnector_downloadFile(c, path, range) ==
    /\ calls[c].pc # "awaiting"
    /\ calls' = [calls EXCEPT ![c] =
          downloadFile("connector", Args([path |-> Str(path), range |-> range]),
              getResource(path), range)]
    /\ UNCHANGED <<config, defaults, sessions>>

MeowithConnector_uploadFile(c, path, data, size) ==
    /\ calls[c].pc # "awaiting"
    /\ calls' = [calls EXCEPT ![c] =
          uploadFile("connector", Args([path |-> Str(path), data |-> data, size |-> Num(size)]),
              getResource(path), data, size)]
    /\ UNCHANGED <<config, defaults, sessions>>

MeowithConnector_startUploadSession(c, path, size) ==
    /\ calls[c].pc # "awaiting"
    /\ calls' = [calls EXCEPT ![c] =
          startUploadSession("connector", Args([path |-> Str(path), size |-> Num(size)]),
              getResource(path), size)]
    /\ UNCHANGED <<config, defaults, sessions>>

MeowithConnector_putFile(c, session, data) ==
    /\ calls[c].pc # "awaiting"
    /\ session \in sessions
    /\ calls' = [calls EXCEPT ![c] =
          putFile("connector", Args([path |-> Undefined, session |-> session, data |-> data]),
              getResource(""), session, data)]
    /\ UNCHANGED <<config, defaults, sessions>>

MeowithConnector_resumeUploadSession(c, session) ==
    /\ calls[c].pc # "awaiting"
    /\ session \in sessions
    /\ calls' = [calls EXCEPT ![c] =
          resumeUploadSession("connector", Args([path |-> Undefined, session |-> session]),
              getResource(""), session)]
    /\ UNCHANGED <<config, defaults, sessions>>

MeowithConnector_renameFile(c, path, to) ==
    /\ calls[c].pc # "awaiting"
    /\ calls' = [calls EXCEPT ![c] =
          renameFile("connector", Args([path |-> Str(path), to |-> Str(to)]),
              getResource(path), to)]
    /\ UNCHANGED <<config, defaults, sessions>>

MeowithConnector_renameDirectory(c, path, to) ==
    /\ calls[c].pc # "awaiting"
    /\ calls' = [calls EXCEPT ![c] =
          renameDirectory("connector", Args([path |-> Str(path), to |-> Str(to)]),
              getResource(path), to)]
    /\ UNCHANGED <<config, defaults, sessions>>

MeowithConnector_deleteFile(c, path) ==
    /\ calls[c].pc # "awaiting"
    /\ calls' = [calls EXCEPT ![c] =
          deleteFile("connector", Args([path |-> Str(path)]), getResource(path))]
    /\ UNCHANGED <<config, defaults, sessions>>

\* the method declares path only: a second argument of the caller is not
\* forwarded, and the accessor's recursive parameter is left undefined
MeowithConnector_deleteDirectory(c, path, recursive) ==
    /\ calls[c].pc # "awaiting"
    /\ calls' = [calls EXCEPT ![c] =
          deleteDirectory("connector", Args([path |-> Str(path), recursive |-> Bool(recursive)]),
              getResource(path), Undefined)]
    /\ UNCHANGED <<config, defaults, sessions>>

MeowithConnector_createDirectory(c, path) ==
    /\ calls[c].pc # "awaiting"
    /\ calls' = [calls EXCEPT ![c] =
          createDirectory("connector", Args([path |-> Str(path)]), getResource(path))]
    /\ UNCHANGED <<config, defaults, sessions>>

MeowithConnector_listBucketFiles(c, pagination) ==
    /\ calls[c].pc # "awaiting"
    /\ calls' = [calls EXCEPT ![c] =
          listBucketFiles("connector", Args([path |-> Undefined, range |-> pagination]),
              getResource(""), pagination)]
    /\ UNCHANGED <<config, defaults, sessions>>

MeowithConnector_listBucketDirectories(c, pagination) ==
    /\ calls[c].pc # "awaiting"
    /\ calls' = [calls EXCEPT ![c] =
          listBucketDirectories("connector", Args([path |-> Undefined, range |-> pagination]),
              getResource(""), pagination)]
    /\ UNCHANGED <<config, defaults, sessions>>

MeowithConnector_listDirectory(c, path, pagination) ==
    /\ calls[c].pc # "awaiting"
    /\ calls' = [calls EXCEPT ![c] =
          listDirectory("connector", Args([path |-> Str(path), range |-> pagination]),
              getResource(path), pagination)]
    /\ UNCHANGED <<config, defaults, sessions>>

MeowithConnector_statResource(c, path) ==
    /\ calls[c].pc # "awaiting"
    /\ calls' = [calls EXCEPT ![c] =
          statResource("connector", Args([path |-> Str(path)]), getResource(path))]
    /\ UNCHANGED <<config, defaults, sessions>>

MeowithConnector_fetchBucketInfo(c) ==
    /\ calls[c].pc # "awaiting"
    /\ calls' = [calls EXCEPT ![c] =
          fetchBucketInfo("connector", Args([path |-> Undefined]), getResource(""))]
    /\ UNCHANGED <<config, defaults, sessions>>

Next ==
    \E c \in CallIds :
        \/ \E resource \in Resources, range \in Ranges : MeowithApiAccessor_downloadFile(c, resource, range)
        \/ \E resource \in Resources, data \in Payloads, size \in Sizes : MeowithApiAccessor_uploadFile(c, resource, data, size)
        \/ \E resource \in Resources, size \in Sizes : MeowithApiAccessor_startUploadSession(c, resource, size)
        \/ \E bucketId \in BucketIdValues, session \in Sessions, data \in Payloads : MeowithApiAccessor_putFile(c, bucketId, session, data)
        \/ \E bucketId \in BucketIdValues, session \in Sessions : MeowithApiAccessor_resumeUploadSession(c, bucketId, session)
        \/ \E resource \in Resources, to \in NewNames : MeowithApiAccessor_renameFile(c, resource, to)
        \/ \E resource \in Resources, to \in NewNames : MeowithApiAccessor_renameDirectory(c, resource, to)
        \/ \E resource \in Resources : MeowithApiAccessor_deleteFile(c, resource)
        \/ \E resource \in Resources, recursive \in BOOLEAN : MeowithApiAccessor_deleteDirectory(c, resource, recursive)
        \/ \E resource \in Resources : MeowithApiAccessor_createDirectory(c, resource)
        \/ \E bucketId \in BucketIdValues, paginate \in Ranges : MeowithApiAccessor_listBucketFiles(c, bucketId, paginate)
        \/ \E bucketId \in BucketIdValues, paginate \in Ranges : MeowithApiAccessor_listBucketDirectories(c, bucketId, paginate)
        \/ \E resource \in Resources, paginate \in Ranges : MeowithApiAccessor_listDirectory(c, resource, paginate)
        \/ \E resource \in Resources : MeowithApiAccessor_statResource(c, resource)
        \/ \E bucketId \in BucketIdValues : MeowithApiAccessor_fetchBucketInfo(c, bucketId)
        \/ \E path \in Paths, range \in Ranges : MeowithConnector_downloadFile(c, path, range)
        \/ \E path \in Paths, data \in Payloads, size \in Sizes : MeowithConnector_uploadFile(c, path, data, size)
        \/ \E path \in Paths, size \in Sizes : MeowithConnector_startUploadSession(c, path, size)
        \/ \E session \in Sessions, data \in Payloads : MeowithConnector_putFile(c, session, data)
        \/ \E session \in Sessions : MeowithConnector_resumeUploadSession(c, session)
        \/ \E path \in Paths, to \in NewNames : MeowithConnector_renameFile(c, path, to)
        \/ \E path \in Paths, to \in NewNames : MeowithConnector_renameDirectory(c, path, to)
        \/ \E path \in Paths : MeowithConnector_deleteFile(c, path)
        \/ \E path \in Paths, recursive \in BOOLEAN : MeowithConnector_deleteDirectory(c, path, recursive)
        \/ \E path \in Paths : MeowithConnector_createDirectory(c, path)
        \/ \E pagination \in Ranges : MeowithConnector_listBucketFiles(c, pagination)
        \/ \E pagination \in Ranges : MeowithConnector_listBucketDirectories(c, pagination)
        \/ \E path \in Paths, pagination \in Ranges : MeowithConnector_listDirectory(c, path, pagination)
        \/ \E path \in Paths : MeowithConnector_statResource(c, path)
        \/ MeowithConnector_fetchBucketInfo(c)
        \/ \E response \in AllResponses : AxiosResolve(c, response)
        \/ \E e \in AxiosErrors : AxiosReject(c, e)

Spec == Init /\ [][Next]_vars

(***************************************************************************)
(* Concurrent callers.  The operations are async: while one caller is      *)
(* suspended on its exchange another may enter, and exchanges settle in    *)
(* any order.  The same actions, taken by several callers over a smaller   *)
(* choice of arguments and outcomes.                                       *)
(***************************************************************************)
ConcCallIds == {1, 2}

ConcResources == {[appId |-> "app2", bucketId |-> "bkt1", path |-> "a.txt"]}

ConcBucketIds == {[appId |-> "app2", bucketId |-> "bkt1"]}

ConcPaths == {"docs"}

ConcRanges == {Undefined, [k \in {} |-> 0]}

ConcPages == {[start |-> 0]}

ConcResponses(op) ==
    CASE op = "startUploadSession" -> {r \in Responses(op) : r.served = <<"s1">>}
      [] op = "downloadFile" ->
            {r \in Responses(op) : {"Content-Length", "Content-Disposition"} \subseteq DOMAIN r.headers}
      [] op \in {"resumeUploadSession", "listBucketFiles", "listBucketDirectories",
                 "listDirectory", "statResource", "fetchBucketInfo"} ->
            {r \in Responses(op) : Len(r.served) = 1}
      [] OTHER -> Responses(op)

AllConcResponses == UNION {ConcResponses(op) : op \in Operations}

ConcErrors == {AxiosError(Undefined), AxiosError([data |-> Obj([code |-> Str("NotFound")])])}

InitConc ==
    /\ config \in Configs
    /\ defaults = MeowithConnector_constructor(config)
    /\ calls = [c \in ConcCallIds |-> Idle]
    /\ sessions = {}

NextConc ==
    \E c \in ConcCallIds :
        \/ \E resource \in ConcResources, range \in ConcRanges : MeowithApiAccessor_downloadFile(c, resource, range)
        \/ \E resource \in ConcResources, data \in Payloads, size \in Sizes : MeowithApiAccessor_uploadFile(c, resource, data, size)
        \/ \E resource \in ConcResources, size \in Sizes : MeowithApiAccessor_startUploadSession(c, resource, size)
        \/ \E bucketId \in ConcBucketIds, session \in Sessions, data \in Payloads : MeowithApiAccessor_putFile(c, bucketId, session, data)
        \/ \E bucketId \in ConcBucketIds, session \in Sessions : MeowithApiAccessor_resumeUploadSession(c, bucketId, session)
        \/ \E resource \in ConcResources, to \in NewNames : MeowithApiAccessor_renameFile(c, resource, to)
        \/ \E resource \in ConcResources, to \in NewNames : MeowithApiAccessor_renameDirectory(c, resource, to)
        \/ \E resource \in ConcResources : MeowithApiAccessor_deleteFile(c, resource)
        \/ \E resource \in ConcResources, recursive \in {TRUE} : MeowithApiAccessor_deleteDirectory(c, resource, recursive)
        \/ \E resource \in ConcResources : MeowithApiAccessor_createDirectory(c, resource)
        \/ \E bucketId \in ConcBucketIds, paginate \in ConcPages : MeowithApiAccessor_listBucketFiles(c, bucketId, paginate)
        \/ \E bucketId \in ConcBucketIds, paginate \in ConcPages : MeowithApiAccessor_listBucketDirectories(c, bucketId, paginate)
        \/ \E resource \in ConcResources, paginate \in ConcPages : MeowithApiAccessor_listDirectory(c, resource, paginate)
        \/ \E resource \in ConcResources : MeowithApiAccessor_statResource(c, resource)
        \/ \E bucketId \in ConcBucketIds : MeowithApiAccessor_fetchBucketInfo(c, bucketId)
        \/ \E path \in ConcPaths, range \in ConcRanges : MeowithConnector_downloadFile(c, path, range)
        \/ \E path \in ConcPaths, data \in Payloads, size \in Sizes : MeowithConnector_uploadFile(c, path, data, size)
        \/ \E path \in ConcPaths, size \in Sizes : MeowithConnector_startUploadSession(c, path, size)
        \/ \E session \in Sessions, data \in Payloads : MeowithConnector_putFile(c, session, data)
        \/ \E session \in Sessions : MeowithConnector_resumeUploadSession(c, session)
        \/ \E path \in ConcPaths, to \in NewNames : MeowithConnector_renameFile(c, path, to)
        \/ \E path \in ConcPaths, to \in NewNames : MeowithConnector_renameDirectory(c, path, to)
        \/ \E path \in ConcPaths : MeowithConnector_deleteFile(c, path)
        \/ \E path \in ConcPaths, recursive \in {TRUE} : MeowithConnector_deleteDirectory(c, path, recursive)
        \/ \E path \in ConcPaths : MeowithConnector_createDirectory(c, path)
        \/ \E pagination \in ConcPages : MeowithConnector_listBucketFiles(c, pagination)
        \/ \E pagination \in ConcPages : MeowithConnector_listBucketDirectories(c, pagination)
        \/ \E path \in ConcPaths, pagination \in ConcPages : MeowithConnector_listDirectory(c, path, pagination)
        \/ \E path \in ConcPaths : MeowithConnector_statResource(c, path)
        \/ MeowithConnector_fetchBucketInfo(c)
        \/ \E response \in AllConcResponses : AxiosResolve(c, response)
        \/ \E e \in ConcErrors : AxiosReject(c, e)

SpecConc == InitConc /\ [][NextConc]_vars

(***************************************************************************)
(* Durable uploads.  Callers start sessions, put chunks and resume, in any *)
(* order and interleaved, against a node that issues several session      *)
(* codes.                                                                  *)
(***************************************************************************)
UploadOperations == {"startUploadSession", "putFile", "resumeUploadSession"}

UploadResponses == UNION {Responses(op) : op \in UploadOperations}

NextUpload ==
    \E c \in ConcCallIds :
        \/ \E resource \in ConcResources, size \in Sizes : MeowithApiAccessor_startUploadSession(c, resource, size)
        \/ \E bucketId \in BucketIdValues, session \in Sessions, data \in Payloads : MeowithApiAccessor_putFile(c, bucketId, session, data)
        \/ \E bucketId \in BucketIdValues, session \in Sessions : MeowithApiAccessor_resumeUploadSession(c, bucketId, session)
        \/ \E path \in ConcPaths, size \in Sizes : MeowithConnector_startUploadSession(c, path, size)
        \/ \E session \in Sessions, data \in Payloads : MeowithConnector_putFile(c, session, data)
        \/ \E session \in Sessions : MeowithConnector_resumeUploadSession(c, session)
        \/ \E response \in UploadResponses : AxiosResolve(c, response)
        \/ \E e \in ConcErrors : AxiosReject(c, e)

SpecUpload == InitConc /\ [][NextUpload]_vars


(***************************************************************************)
(* Properties.                                                             *)
(***************************************************************************)
EmptyRange == [k \in {} |-> 0]

ListingOps == {"listBucketFiles", "listBucketDirectories", "listDirectory"}

\* the exchange of call was answered with a non-2xx response carrying body
RejectedWithBody(call) ==
    /\ call.pc = "returned" /\ call.sent = 1
    /\ call.settled.status = "rejected"
    /\ call.settled.reason.response # Undefined

\* the exchange of call was answered with a 2xx response
Fulfilled(call) ==
    /\ call.pc \in {"returned", "raised"} /\ call.sent = 1
    /\ call.settled.status = "fulfilled"

\* the code member of an error body, Undefined when it has none
BodyCode(call) == Get(call.settled.reason.response.data, "code")

\* C1: the error kind of every returned error is a member of the closed
\* NodeClientError enumeration; a code outside it, or no code, is classified
\* as LocalInternalError.
C1_ErrorKindInEnumeration ==
    \A c \in DOMAIN calls :
        calls[c].pc = "returned" /\ calls[c].result[2] # Undefined
            => calls[c].result[2].apiError \in NodeClientError

\* the recursive flag the caller of deleteDirectory passed
CallerRecursive(call) ==
    IF call.via = "connector" THEN call.cargs.recursive ELSE call.args.recursive

\* C2: every deleteDirectory call, through the accessor or the connector,
\* sends DELETE /api/directory/delete with the body {recursive: r} for the
\* flag r its caller passed.
C2_RecursivePassedThrough ==
    \A c \in DOMAIN calls :
        calls[c].op = "deleteDirectory" /\ calls[c].sent = 1
            => /\ calls[c].request.method = "DELETE"
               /\ calls[c].request.data = Obj([recursive |-> CallerRecursive(calls[c])])

\* a downloadFile call whose range object has neither start nor end
EmptyRangeDownload(call) ==
    call.op = "downloadFile" /\ call.pc # "idle" /\ call.args.range = EmptyRange

\* C3 as stated: downloadFile with a range object that has neither start nor
\* end raises to its caller, and sends no request.
C3_EmptyRangeRaises ==
    \A c \in DOMAIN calls :
        EmptyRangeDownload(calls[c]) => calls[c].pc = "raised" /\ calls[c].sent = 0

\* C3 as amended: downloadFile with a range object that has neither start nor
\* end does not raise; it returns (no value, LocalInternalError wrapping the
\* invalid-range failure), and sends no request.
C3_EmptyRangeReturnsLocalError ==
    \A c \in DOMAIN calls :
        EmptyRangeDownload(calls[c])
            => /\ calls[c].pc = "returned"
               /\ calls[c].sent = 0 /\ calls[c].request = Undefined
               /\ calls[c].result[1] = Undefined
               /\ calls[c].result[2] # Undefined
               /\ calls[c].result[2].apiError = "LocalInternalError"
               /\ calls[c].result[2].jsError.name = "Error"
               /\ calls[c].result[2].jsError.message = "Invalid range object"

C3_Witness ==
    \E c \in DOMAIN calls :
        EmptyRangeDownload(calls[c]) /\ calls[c].via = "connector" /\ calls[c].pc = "returned"

\* C4: no operation raises, whatever the exchange ends in; a returned result
\* has two slots and is (value, no error) or (no value, error).
C4_ReturnsResultNeverRaises ==
    \A c \in DOMAIN calls :
        /\ calls[c].pc \in {"idle", "awaiting", "returned"}
        /\ calls[c].pc = "returned"
            => /\ Len(calls[c].result) = 2
               /\ calls[c].result[2] # Undefined
                    => /\ calls[c].result[1] = Undefined
                       /\ calls[c].result[2].name = "ConnectorError"

\* a 2xx response lacking what the operation reads ended in the error slot
C4_Witness ==
    \E c \in DOMAIN calls :
        /\ Fulfilled(calls[c]) /\ calls[c].op = "statResource"
        /\ calls[c].settled.value.data = Undefined
        /\ calls[c].pc = "returned" /\ calls[c].result[2] # Undefined

\* C5: the Range header of a download is bytes=start-end for a range with
\* both fields, bytes=start- for start only, bytes=-end for end only, zero
\* offsets included; a range object with neither field is an invalid-argument
\* failure.
C5_RangeHeader ==
    \A c \in DOMAIN calls :
        LET call == calls[c]
            r == call.args.range
        IN call.op = "downloadFile" /\ call.pc # "idle" /\ r # Undefined =>
            IF {"start", "end"} \subseteq DOMAIN r
            THEN /\ call.sent = 1
                 /\ call.request.headers["Range"]
                        = "bytes=" \o ToString(r.start) \o "-" \o ToString(r.end)
            ELSE IF "start" \in DOMAIN r
            THEN /\ call.sent = 1
                 /\ call.request.headers["Range"] = "bytes=" \o ToString(r.start) \o "-"
            ELSE IF "end" \in DOMAIN r
            THEN /\ call.sent = 1
                 /\ call.request.headers["Range"] = "bytes=-" \o ToString(r.end)
            ELSE /\ call.sent = 0
                 /\ call.result[2] # Undefined
                 /\ call.result[2].jsError.message = "Invalid range object"

\* a download of the range {start: 0, end: 0} went out with bytes=0-0
C5_Witness ==
    \E c \in DOMAIN calls :
        /\ calls[c].op = "downloadFile" /\ calls[c].sent = 1
        /\ calls[c].args.range = [start |-> 0, end |-> 0]
        /\ calls[c].request.headers["Range"] = "bytes=0-0"

\* the path of a listing request, before the query
ListingPath(call) ==
    LET r == call.args.resource
    IN CASE call.op = "listBucketFiles" ->
                "/api/bucket/list/files/" \o r.appId \o "/" \o r.bucketId
         [] call.op = "listBucketDirectories" ->
                "/api/bucket/list/directories/" \o r.appId \o "/" \o r.bucketId
         [] call.op = "listDirectory" ->
                "/api/directory/list/" \o r.appId \o "/" \o r.bucketId \o "/" \o r.path

\* C6: the URL of a listing request ends in ?start=S&end=E for a closed range,
\* ?start=S- for start only, ?end=E for end only, and in nothing when no range
\* or a range object with neither field is given; the listing never raises.
C6_PaginationQuery ==
    \A c \in DOMAIN calls :
        LET call == calls[c]
            r == call.args.range
            query == IF r = Undefined THEN ""
                     ELSE IF {"start", "end"} \subseteq DOMAIN r
                     THEN "?start=" \o ToString(r.start) \o "&end=" \o ToString(r.end)
                     ELSE IF "start" \in DOMAIN r THEN "?start=" \o ToString(r.start) \o "-"
                     ELSE IF "end" \in DOMAIN r THEN "?end=" \o ToString(r.end)
                     ELSE ""
        IN call.op \in ListingOps /\ call.pc # "idle" =>
               /\ call.pc # "raised"
               /\ call.sent = 1
               /\ call.request.url = ListingPath(call) \o query

\* a start-only listing keeps the trailing hyphen
C6_Witness ==
    \E c \in DOMAIN calls :
        /\ calls[c].op = "listDirectory" /\ calls[c].sent = 1
        /\ calls[c].args.range = [start |-> 1]
        /\ calls[c].request.url = "/api/directory/list/app1/bkt1/docs?start=1-"

\* C7: a transport failure whose body is {code: K}, K one of the nine
\* server-reported kinds, makes the operation return (no value, error of
\* kind K).
C7_ServerCodeSurfaced ==
    \A c \in DOMAIN calls :
        RejectedWithBody(calls[c]) /\ BodyCode(calls[c]) # Undefined
            => (BodyCode(calls[c]).value \in ServerErrors
                    => /\ calls[c].result[1] = Undefined
                       /\ calls[c].result[2] # Undefined
                       /\ calls[c].result[2].apiError = BodyCode(calls[c]).value)

\* a listing rejected with {code: NotFound} returned the kind NotFound
C7_Witness ==
    \E c \in DOMAIN calls :
        /\ RejectedWithBody(calls[c]) /\ calls[c].op = "listBucketFiles"
        /\ calls[c].settled.reason.response.data = Obj([code |-> Str("NotFound")])
        /\ calls[c].result[2].apiError = "NotFound"

\* the failure the catch block of a returned call received, Undefined when the
\* try block completed
Caught(call) ==
    IF call.sent = 0 THEN InvalidRangeError
    ELSE IF call.settled.status = "rejected" THEN call.settled.reason
    ELSE IF Then(call.op, call.settled.value).threw THEN Then(call.op, call.settled.value).error
    ELSE Undefined

\* C8: a transport failure without a response body, and a failure that is not
\* a transport error, give (no value, LocalInternalError), and the error
\* wraps the failure itself.
C8_LocalInternalError ==
    \A c \in DOMAIN calls :
        LET call == calls[c]
            e == Caught(call)
        IN call.pc = "returned" /\ e # Undefined
           /\ (~e.isAxiosError \/ e.response = Undefined \/ e.response.data = Str(""))
            => /\ call.result[1] = Undefined
               /\ call.result[2] # Undefined
               /\ call.result[2].apiError = "LocalInternalError"
               /\ call.result[2].jsError = e

\* a request that got no response at all
C8_Witness ==
    \E c \in DOMAIN calls :
        /\ calls[c].pc = "returned" /\ calls[c].sent = 1
        /\ calls[c].settled.status = "rejected"
        /\ calls[c].settled.reason.response = Undefined
        /\ calls[c].result[2].apiError = "LocalInternalError"

\* the arguments the accessor receives when the connector only adds the
\* bound identifiers to what its caller passed
Curried(cargs) ==
    [cargs EXCEPT !.resource = [appId |-> config.appId, bucketId |-> config.bucketId,
                                path |-> IF cargs.path = Undefined THEN "" ELSE cargs.path.value],
                  !.path = Undefined]

\* sub occurs in s
Contains(s, sub) ==
    \E i \in 1..Len(s) : i + Len(sub) - 1 <= Len(s) /\ SubSeq(s, i, i + Len(sub) - 1) = sub

\* the request the accessor issues for an operation and its arguments
AccessorRequest(op, a) ==
    CASE op = "downloadFile" -> downloadFile_request(a.resource, a.range)
      [] op = "uploadFile" -> uploadFile_request(a.resource, a.data, a.size.value)
      [] op = "startUploadSession" -> startUploadSession_request(a.resource, a.size.value)
      [] op = "putFile" -> putFile_request(a.resource, a.session, a.data)
      [] op = "resumeUploadSession" -> resumeUploadSession_request(a.resource, a.session)
      [] op = "renameFile" -> renameFile_request(a.resource, a.to.value)
      [] op = "renameDirectory" -> renameDirectory_request(a.resource, a.to.value)
      [] op = "deleteFile" -> deleteFile_request(a.resource)
      [] op = "deleteDirectory" -> deleteDirectory_request(a.resource, a.recursive)
      [] op = "createDirectory" -> createDirectory_request(a.resource)
      [] op = "listBucketFiles" -> listBucketFiles_request(a.resource, a.range)
      [] op = "listBucketDirectories" -> listBucketDirectories_request(a.resource, a.range)
      [] op = "listDirectory" -> listDirectory_request(a.resource, a.range)
      [] op = "statResource" -> statResource_request(a.resource)
      [] op = "fetchBucketInfo" -> fetchBucketInfo_request(a.resource)

\* C9: a connector operation issues the request the accessor issues for the
\* resource (bound appId, bound bucketId, caller's path or the empty path) and
\* the caller's remaining arguments unchanged, and it addresses the bound app
\* and bucket only.
C9_ConnectorCurriesAccessor ==
    \A c \in DOMAIN calls :
        LET call == calls[c]
            expected == AccessorRequest(call.op, Curried(call.cargs))
        IN call.via = "connector" /\ call.pc # "idle" =>
               /\ call.args = Curried(call.cargs)
               /\ call.sent = (IF expected.threw THEN 0 ELSE 1)
               /\ call.sent = 1 =>
                    /\ call.request = Dispatch(expected.value, defaults)
                    /\ Contains(call.request.url,
                                "/" \o config.appId \o "/" \o config.bucketId)

\* the body of a 2xx response carries a sequence of entities
CarriesEntities(response) ==
    /\ response.data # Undefined
    /\ Get(response.data, "entities") # Undefined
    /\ Get(response.data, "entities").type = "array"

\* C10: a successful listing returns as many entities as the node sent, in the
\* node's order, each with the fields of the wire entity unchanged except
\* created and last_modified, which are the dates of the node's instants.
C10_ListingPreservesEntities ==
    \A c \in DOMAIN calls :
        LET call == calls[c]
        IN call.op \in ListingOps /\ Fulfilled(call) /\ CarriesEntities(call.settled.value) =>
            LET raw == call.settled.value.data.fields.entities.items
                node == call.settled.value.served
                out == call.result[1]
            IN /\ call.pc = "returned"
               /\ call.result[2] = Undefined
               /\ out.type = "array"
               /\ Len(out.items) = Len(raw)
               /\ \A i \in 1..Len(raw) :
                    /\ DOMAIN out.items[i].fields = DOMAIN raw[i].fields
                    /\ \A k \in DOMAIN raw[i].fields \ {"created", "last_modified"} :
                         out.items[i].fields[k] = raw[i].fields[k]
                    /\ \A k \in {"created", "last_modified"} :
                         /\ out.items[i].fields[k].type = "Date"
                         /\ out.items[i].fields[k].valid
                         /\ out.items[i].fields[k].time = node[i][k]

\* a listing of two entities, the directory first, came back in that order
C10_Witness ==
    \E c \in DOMAIN calls :
        /\ calls[c].op = "listDirectory" /\ Fulfilled(calls[c]) /\ calls[c].pc = "returned"
        /\ calls[c].result[2] = Undefined
        /\ Len(calls[c].settled.value.served) = 2
        /\ Len(calls[c].result[1].items) = 2
        /\ calls[c].result[1].items[1].fields.name = Str("docs")
        /\ calls[c].result[1].items[2].fields.name = Str("a.txt")
        /\ calls[c].result[1].items[2].fields.created.time = <<951868799, 0>>

\* an HTTP header name in lower case; header names are case-insensitive
LowerCase(s) ==
    LET Upper == "ABCDEFGHIJKLMNOPQRSTUVWXYZ"
        Lower == "abcdefghijklmnopqrstuvwxyz"
        lc(ch) == IF \E i \in 1..26 : CharAt(Upper, i) = ch
                  THEN CharAt(Lower, CHOOSE i \in 1..26 : CharAt(Upper, i) = ch)
                  ELSE ch
        F[i \in 0..Len(s)] == IF i = 0 THEN "" ELSE F[i - 1] \o lc(CharAt(s, i))
    IN F[Len(s)]

\* the value of the HTTP header called name in a response, "" when it has none
HttpHeader(response, name) ==
    LET keys == {k \in DOMAIN response.headers : LowerCase(k) = LowerCase(name)}
    IN IF keys = {} THEN "" ELSE response.headers[CHOOSE k \in keys : TRUE]

\* a 2xx download response with the headers Content-Length: 42,
\* Content-Disposition: attachment; filename="a.txt", Content-Type: text/plain
ExampleDownload(call) ==
    /\ call.op = "downloadFile" /\ Fulfilled(call)
    /\ HttpHeader(call.settled.value, "Content-Length") = "42"
    /\ HttpHeader(call.settled.value, "Content-Disposition") = "attachment; filename=\"a.txt\""
    /\ HttpHeader(call.settled.value, "Content-Type") = "text/plain"

\* C11: a download answered with those headers returns (file entity, no
\* error) with size 42, name "a.txt", mime "text/plain" and the response
\* body stream as content.
C11_DownloadEntityFromHeaders ==
    \A c \in DOMAIN calls :
        ExampleDownload(calls[c])
            => /\ calls[c].pc = "returned"
               /\ calls[c].result[2] = Undefined
               /\ calls[c].result[1] =
                    Obj([size |-> Num(42), name |-> Str("a.txt"), mime |-> Str("text/plain"),
                         content |-> calls[c].settled.value.data])

\* C12 as stated: every invocation that has ended issued exactly one HTTP
\* exchange, that exchange has settled, and nothing is left in flight.
C12_ExactlyOneExchange ==
    \A c \in DOMAIN calls :
        calls[c].pc \in {"returned", "raised"}
            => /\ calls[c].sent = 1
               /\ calls[c].settled # Undefined
               /\ calls[c].inflight = 0

\* the exchanges of call are accounted for: at most one was issued, it is in
\* flight exactly while the call is suspended, and a call that has ended
\* issued none only if it is a download with an empty range object
ExchangeAccounted(call) ==
    /\ call.sent \in {0, 1}
    /\ call.inflight = (IF call.pc = "awaiting" THEN 1 ELSE 0)
    /\ call.pc = "awaiting" => call.sent = 1 /\ call.settled = Undefined
    /\ call.pc \in {"returned", "raised"}
         => /\ call.sent = 0 <=> EmptyRangeDownload(call)
            /\ call.sent = 1 <=> call.settled # Undefined

\* a suspended call that takes a step ends, without sending anything more
SettlesOnce(c) ==
    calls[c].pc = "awaiting" /\ calls'[c] # calls[c]
        => /\ calls'[c].pc \in {"returned", "raised"}
           /\ calls'[c].sent = calls[c].sent
           /\ calls'[c].request = calls[c].request
           /\ calls'[c].inflight = 0
           /\ calls'[c].settled # Undefined

\* C12 as amended: every invocation issues at most one HTTP exchange --
\* exactly one, except downloadFile with a range object that has neither
\* start nor end, which issues none -- and ends only after that exchange has
\* settled; no invocation issues a second request and none leaves a request
\* in flight after it has ended, in any interleaving of calls.
C12_AtMostOneExchange ==
    /\ [](\A c \in DOMAIN calls : ExchangeAccounted(calls[c]))
    /\ [][\A c \in DOMAIN calls : SettlesOnce(c)]_vars

\* one call has ended after its exchange failed while another is still
\* suspended on its own
C12_Witness ==
    \E c, d \in DOMAIN calls :
        /\ c # d
        /\ calls[c].pc = "returned" /\ calls[c].sent = 1
        /\ calls[c].settled.status = "rejected"
        /\ calls[d].pc = "awaiting" /\ calls[d].inflight = 1

\* the base URL the connector derives from its configuration
BaseUrl(cfg) == "http" \o (IF cfg.useSsl THEN "s" ELSE "") \o "://" \o cfg.nodeAddress

\* the request of a call that sent one carries the construction-time values
CarriesDefaults(call) ==
    call.sent = 1
        => /\ call.request.baseURL = BaseUrl(config)
           /\ "Authorization" \in DOMAIN call.request.headers
           /\ call.request.headers["Authorization"] = "Bearer " \o config.apiToken

\* two calls given the same arguments sent the same request, and settled the
\* same way they ended the same way, whatever else went on around each
SameCallSameOutcome(a, b) ==
    /\ a.via = b.via /\ a.op = b.op /\ a.cargs = b.cargs /\ a.args = b.args
    /\ a.pc # "idle" /\ b.pc # "idle"
    => /\ a.sent = b.sent
       /\ a.request = b.request
       /\ a.pc = b.pc /\ a.settled = b.settled
            => a.result = b.result /\ a.raised = b.raised

\* a step of one call leaves every other call as it was
OthersUntouched ==
    \A c, d \in DOMAIN calls :
        c # d /\ calls'[c] # calls[c] => calls'[d] = calls[d]

\* C13: no operation modifies the accessor's base URL, its Authorization
\* default or the connector's configuration; after any interleaving of
\* concurrent calls they equal the values fixed at construction, every
\* request carries the bearer token given at construction, and the request
\* and result of one call do not depend on any other call.
C13_ConstructionValuesFixed ==
    /\ [](/\ defaults = MeowithConnector_constructor(config)
          /\ \A c \in DOMAIN calls : CarriesDefaults(calls[c])
          /\ \A c, d \in DOMAIN calls : SameCallSameOutcome(calls[c], calls[d]))
    /\ [][/\ config' = config
          /\ defaults' = defaults
          /\ OthersUntouched]_vars

\* two calls are suspended at once, both requests carrying the token, after
\* an earlier call has already completed and left a session behind
C13_Witness ==
    /\ sessions # {}
    /\ \E c, d \in DOMAIN calls :
          /\ c # d
          /\ calls[c].pc = "awaiting" /\ calls[d].pc = "awaiting"
          /\ calls[c].op # calls[d].op
          /\ calls[c].request.headers["Authorization"] = "Bearer tok"

\* the bucket a putFile or resumeUploadSession call addresses
UploadBucket(call) == call.args.resource

\* a putFile or resumeUploadSession request carries the code of the session
\* its caller passed, and nothing else of the session
SendsCodeBack(call) ==
    LET session == call.args.session
    IN /\ call.op = "putFile" /\ call.sent = 1
            => /\ call.request.method = "PUT"
               /\ call.request.url =
                    "/api/file/upload/put/" \o UploadBucket(call).appId \o "/"
                        \o UploadBucket(call).bucketId \o "/" \o session.code
               /\ call.request.data = call.args.data
       /\ call.op = "resumeUploadSession" /\ call.sent = 1
            => /\ call.request.method = "POST"
               /\ call.request.url =
                    "/api/file/upload/resume/" \o UploadBucket(call).appId \o "/"
                        \o UploadBucket(call).bucketId
               /\ call.request.data = Obj([session_id |-> Str(session.code)])

\* what startUploadSession and resumeUploadSession return on success is the
\* body the node answered with
ReturnsServerValue(call) ==
    /\ call.op \in {"startUploadSession", "resumeUploadSession"}
    /\ call.pc = "returned" /\ call.sent = 1
    /\ call.settled.status = "fulfilled"
    => /\ call.result = <<call.settled.value.data, Undefined>>
       /\ call.op = "resumeUploadSession"
            => call.result[1].fields.uploaded = Num(call.settled.value.served[1])

\* every session a caller holds carries a code the node issued
HeldSessionsIssued ==
    \A s \in sessions :
        \E r \in Responses("startUploadSession") : r.served = <<s.code>>

\* C14: in a durable upload the client keeps no session state of its own: the
\* code the node returned from startUploadSession is sent back verbatim, as
\* the last path segment of every putFile request and as session_id in the
\* body of every resumeUploadSession request, and the uploaded count that
\* resumeUploadSession returns is the node's value.
C14_SessionCodeVerbatim ==
    /\ HeldSessionsIssued
    /\ defaults = MeowithConnector_constructor(config)
    /\ \A c \in DOMAIN calls :
          /\ calls[c].op \in {"putFile", "resumeUploadSession"} /\ calls[c].pc # "idle"
                => calls[c].args.session \in sessions
          /\ SendsCodeBack(calls[c])
          /\ ReturnsServerValue(calls[c])

\* a resume of the session with code "s2", whose info says 0 bytes uploaded,
\* has returned the 7 bytes the node reported
C14_Witness ==
    \E c \in DOMAIN calls :
        /\ calls[c].op = "resumeUploadSession" /\ calls[c].pc = "returned"
        /\ calls[c].args.session.code = "s2"
        /\ calls[c].args.session.uploaded = 0
        /\ calls[c].request.data = Obj([session_id |-> Str("s2")])
        /\ calls[c].result = <<Obj([uploaded |-> Num(7)]), Undefined>>

====
